---- MODULE Spec2Model ----
(***************************************************************************)
(* Verification model of the plant-disease backend:                        *)
(*   - PlantDiseaseModel (backend/disease_model.py): the life cycle of one *)
(*     classifier instance and the model files it writes and reads;        *)
(*   - ModelEvaluator, the error analysis and the calibration helper       *)
(*     (backend/utils/evaluation.py): pure functions over label batches;   *)
(*   - ImagePreprocessor and crop_leaf_region                              *)
(*     (backend/utils/preprocessing.py): pure functions over images;       *)
(*   - concurrent calls on one shared PlantDiseaseModel;                   *)
(*   - one training call epoch by epoch, with the Keras callbacks;         *)
(*   - the /api/predict endpoint (backend/app.py) and its temporary files; *)
(*   - VoiceAssistant.translate_text and process_text_query                *)
(*     (backend/voice_assistant.py).                                       *)
(*                                                                         *)
(* Numbers: learning rates are in units of 1e-6 (0.001 = 1000);            *)
(* probabilities are in units of 1/ProbUnits (1/CalUnits in calibration);  *)
(* ratios are kept exact as <<numerator, denominator>> in lowest terms.    *)
(***************************************************************************)
EXTENDS Integers, Sequences, FiniteSets, TLC

VARIABLES
    num_classes,   \* self.num_classes
    input_shape,   \* self.input_shape (the side of the square input)
    model,         \* self.model: None, or Some(the Keras model)
    history,       \* self.history: None, or Some(the History of train_initial)
    disk,          \* the model files: path -> None or Some(artifact)
    outcome,       \* what the last call on the instance returned or raised
    seen,          \* the last prediction returned since the parameters last changed
    saved,         \* what the model written by save_model predicted when saved
    calls,         \* number of calls made so far
    ev             \* the call of a pure function, or the calls in progress of the threads

vars == <<num_classes, input_shape, model, history, disk, outcome, seen, saved, calls, ev>>

-----------------------------------------------------------------------------
(* Bounds of the model *)

MaxClasses == 3
BackboneLayers == 2
MaxWeights == 2
MaxTensor == 2
MaxEpochs == 3
MaxCalls == 4
ProbUnits == 2
MaxBatch == 2
MaxCalBatch == 2
CalUnits == 4
MaxBins == 3
MaxEvalBatch == 3
MaxSide == 3
MaxCropWidth == 4
MaxCropHeight == 2
MaxGrid == 2
MaxStrip == 6
MaxThreads == 2
MaxFitEpochs == 5
MaxRequests == 3

-----------------------------------------------------------------------------
(* Values *)

None == <<>>
Some(x) == <<x>>
Get(o) == o[1]

ClassCounts == 2..MaxClasses
InputShapes == {224}
Weights == 1..MaxWeights
Tensors == 1..MaxTensor
EpochChoices == {1, MaxEpochs}
UnfreezeChoices == {0, 1, BackboneLayers + 1}

default_learning_rate == 1000
fine_tune_learning_rate == 10
LearningRates == {default_learning_rate, 2000}

\* a path is <<directory, file name>>; the directory of a bare file name is ""
default_model_path == <<"models", "plant_disease_model.h5">>
initial_checkpoint_path == <<"models", "initial_model.h5">>
fine_tuned_checkpoint_path == <<"models", "fine_tuned_model.h5">>
bare_model_path == <<"", "model.h5">>
CallerPaths == {default_model_path, bare_model_path}
Paths == CallerPaths \cup {initial_checkpoint_path, fine_tuned_checkpoint_path}

dirname(p) == p[1]

ClassPool == <<"Apple___healthy", "Apple___Apple_scab", "Tomato___healthy", "Tomato___Early_blight">>
ClassPoolReversed == [i \in 1..Len(ClassPool) |-> ClassPool[Len(ClassPool) + 1 - i]]
NameLists(n) == {SubSeq(ClassPool, 1, n), SubSeq(ClassPoolReversed, 1, n)}

Min(a, b) == IF a < b THEN a ELSE b
Max(a, b) == IF a > b THEN a ELSE b

-----------------------------------------------------------------------------
(* The Keras model held in self.model *)

\* EfficientNetB0 frozen, head freshly initialised, nothing compiled yet
NewModel(n, shape, w) ==
    [numClasses |-> n,
     inputShape |-> shape,
     trainable |-> [l \in 1..BackboneLayers |-> FALSE],
     compiled |-> FALSE,
     lr |-> 0,
     w |-> w,
     trained |-> FALSE,
     fineTuned |-> FALSE]

\* the state of the spec's state machine an instance is in
State(m) ==
    IF m = None THEN "Unbuilt"
    ELSE IF Get(m).fineTuned THEN "FineTuned"
    ELSE IF Get(m).trained THEN "Trained"
    ELSE "Built"

\* Model.compile(optimizer=Adam(learning_rate=lr), ...)
Compile(m, lr) == [m EXCEPT !.compiled = TRUE, !.lr = lr]

\* base_model.trainable = True; for layer in base_model.layers[:-k]: layer.trainable = False
\* (Python's slice [:-k] is empty for k = 0 and for k >= len)
FrozenPrefix(k) == IF k = 0 THEN 0 ELSE Max(BackboneLayers - k, 0)

Unfreeze(m, k) == [m EXCEPT !.trainable = [l \in 1..BackboneLayers |-> l > FrozenPrefix(k)]]

-----------------------------------------------------------------------------
(* Model.fit with EarlyStopping, ModelCheckpoint and ReduceLROnPlateau *)

\* a reduction that ignores min_lr
ReduceLRBelowFloor(lr, min_lr) == lr \div 5

\* ReduceLROnPlateau: new_lr = max(old_lr * factor, min_lr) when old_lr > min_lr
ReduceLR(lr, min_lr) == IF lr > min_lr THEN Max(lr \div 5, min_lr) ELSE lr

RECURSIVE ReduceTimes(_, _, _)
ReduceTimes(lr, min_lr, r) == IF r = 0 THEN lr ELSE ReduceTimes(ReduceLR(lr, min_lr), min_lr, r - 1)

\* The outcomes of one fit call: the number of epochs run (EarlyStopping cannot
\* stop before patience + 1 epochs), the weights left in the model, the
\* weights of the best epoch (the checkpoint) and the number of learning-rate
\* reductions (one needs lr_patience epochs without improvement).
FitOutcomes(epochs, es_patience, lr_patience) ==
    {o \in [ran : 1..epochs, w : Weights, best : Weights, reductions : 0..epochs] :
        /\ o.ran >= Min(epochs, es_patience + 1)
        /\ o.reductions <= (o.ran - 1) \div lr_patience
        /\ (o.ran < epochs => o.w = o.best)}

\* a fit that would also train a model that was never compiled
CanFitUncompiled(m) == TRUE

\* Model.fit raises RuntimeError on a model that was never compiled
CanFit(m) == m.compiled

\* the model after the fit
Fitted(m, o, min_lr) == [m EXCEPT !.w = o.w, !.lr = ReduceTimes(m.lr, min_lr, o.reductions)]

\* the model ModelCheckpoint saved: the best epoch's weights
Checkpointed(m, o) == [m EXCEPT !.w = o.best]

\* History.history: one record per epoch run
HistoryOf(m, o) == [e \in 1..o.ran |-> [epoch |-> e]]

\* what one fit call on model m can leave behind: the model, the checkpoint
\* file's model, the history it returns
FitResults(m, epochs, es_patience, lr_patience, min_lr) ==
    {[model |-> Fitted(m, o, min_lr), checkpoint |-> Checkpointed(m, o), history |-> HistoryOf(m, o)] :
        o \in FitOutcomes(epochs, es_patience, lr_patience)}

-----------------------------------------------------------------------------
(* Model.save / load_model: the HDF5 artifact *)

Serialize(m) ==
    [model_config |-> [numClasses |-> m.numClasses, inputShape |-> m.inputShape,
                       trainable |-> m.trainable],
     model_weights |-> [w |-> m.w, trained |-> m.trained, fineTuned |-> m.fineTuned],
     training_config |-> IF m.compiled THEN Some([lr |-> m.lr]) ELSE None]

\* a load that rebuilds the architecture and leaves the weights at their
\* initial values
DeserializeArchitectureOnly(a) ==
    [numClasses |-> a.model_config.numClasses,
     inputShape |-> a.model_config.inputShape,
     trainable |-> a.model_config.trainable,
     compiled |-> a.training_config # None,
     lr |-> IF a.training_config # None THEN Get(a.training_config).lr ELSE 0,
     w |-> 1,
     trained |-> FALSE,
     fineTuned |-> FALSE]

Deserialize(a) ==
    [numClasses |-> a.model_config.numClasses,
     inputShape |-> a.model_config.inputShape,
     trainable |-> a.model_config.trainable,
     compiled |-> a.training_config # None,
     lr |-> IF a.training_config # None THEN Get(a.training_config).lr ELSE 0,
     w |-> a.model_weights.w,
     trained |-> a.model_weights.trained,
     fineTuned |-> a.model_weights.fineTuned]

-----------------------------------------------------------------------------
(* Model.predict: the forward pass *)

Prepend(k, seqs) == [i \in 1..Len(seqs) |-> <<k>> \o seqs[i]]

\* every vector of n shares of q, in lexicographic order
RECURSIVE Compositions(_, _)
RECURSIVE CompositionsFrom(_, _, _)
Compositions(n, q) == IF n = 1 THEN << <<q>> >> ELSE CompositionsFrom(n, q, 0)
CompositionsFrom(n, q, k) ==
    IF k > q THEN <<>>
    ELSE Prepend(k, Compositions(n - 1, q - k)) \o CompositionsFrom(n, q, k + 1)

\* a forward pass in training mode: dropout makes the output vary by call
ForwardTrainingMode(m, t) ==
    LET c == Compositions(m.numClasses, ProbUnits)
    IN c[((m.w * MaxTensor + t + calls) % Len(c)) + 1]

\* softmax output of the network with weights w on tensor t: a fixed function
\* of the two, a probability vector of length numClasses
Forward(m, t) ==
    LET c == Compositions(m.numClasses, ProbUnits)
    IN c[((m.w * MaxTensor + t) % Len(c)) + 1]

\* an argmax that returns the last index holding the maximum
ArgMaxLast(p) == CHOOSE i \in 1..Len(p) :
                    /\ \A j \in 1..Len(p) : p[j] <= p[i]
                    /\ \A j \in (i + 1)..Len(p) : p[j] < p[i]

\* np.argmax: the first index holding the maximum
ArgMax(p) == CHOOSE i \in 1..Len(p) :
                /\ \A j \in 1..Len(p) : p[j] <= p[i]
                /\ \A j \in 1..(i - 1) : p[j] < p[i]

-----------------------------------------------------------------------------
(* Calls on one PlantDiseaseModel instance *)

NoSeen == None

Returned(op, pre) ==
    [op |-> op, err |-> "", pre |-> pre, tensor |-> 0, names |-> <<>>,
     label |-> "", confidence |-> -1, probabilities |-> <<>>, epochs |-> 0,
     path |-> <<>>, repeat |-> FALSE]

Raised(op, pre, err) == [Returned(op, pre) EXCEPT !.err = err]

\* __init__
PlantDiseaseModel(n, shape) ==
    /\ calls < MaxCalls
    /\ num_classes' = n
    /\ input_shape' = shape
    /\ model' = None
    /\ history' = None
    /\ seen' = NoSeen
    /\ outcome' = Returned("__init__", State(model))
    /\ calls' = calls + 1
    /\ UNCHANGED <<disk, saved, ev>>

build_model(w) ==
    /\ calls < MaxCalls
    /\ model' = Some(NewModel(num_classes, input_shape, w))
    /\ seen' = NoSeen
    /\ outcome' = Returned("build_model", State(model))
    /\ calls' = calls + 1
    /\ UNCHANGED <<num_classes, input_shape, history, disk, saved, ev>>

compile_model(learning_rate) ==
    /\ calls < MaxCalls
    /\ calls' = calls + 1
    /\ IF model = None
       THEN /\ outcome' = Raised("compile_model", State(model), "AttributeError")
            /\ UNCHANGED model
       ELSE /\ model' = Some(Compile(Get(model), learning_rate))
            /\ outcome' = Returned("compile_model", State(model))
    /\ UNCHANGED <<num_classes, input_shape, history, disk, seen, saved, ev>>

train_initial(epochs) ==
    /\ calls < MaxCalls
    /\ calls' = calls + 1
    /\ IF model = None
       THEN /\ outcome' = Raised("train_initial", State(model), "AttributeError")
            /\ UNCHANGED <<model, history, disk, seen>>
       ELSE IF ~CanFit(Get(model))
       THEN /\ outcome' = Raised("train_initial", State(model), "RuntimeError")
            /\ UNCHANGED <<model, history, disk, seen>>
       ELSE \E r \in FitResults([Get(model) EXCEPT !.trained = TRUE], epochs, 3, 2, 100) :
            /\ model' = Some(r.model)
            /\ history' = Some(r.history)
            /\ disk' = [disk EXCEPT ![initial_checkpoint_path] = Some(Serialize(r.checkpoint))]
            /\ seen' = NoSeen
            /\ outcome' = [Returned("train_initial", State(model)) EXCEPT !.epochs = Len(r.history)]
    /\ UNCHANGED <<num_classes, input_shape, saved, ev>>

fine_tune(epochs, unfreeze_layers) ==
    /\ calls < MaxCalls
    /\ calls' = calls + 1
    /\ IF model = None
       THEN /\ outcome' = Raised("fine_tune", State(model), "AttributeError")
            /\ UNCHANGED <<model, disk, seen>>
       ELSE \E r \in FitResults([Compile(Unfreeze(Get(model), unfreeze_layers), fine_tune_learning_rate)
                                     EXCEPT !.fineTuned = TRUE], epochs, 5, 3, 10) :
            /\ model' = Some(r.model)
            /\ disk' = [disk EXCEPT ![fine_tuned_checkpoint_path] = Some(Serialize(r.checkpoint))]
            /\ seen' = NoSeen
            /\ outcome' = [Returned("fine_tune", State(model)) EXCEPT !.epochs = Len(r.history)]
    /\ UNCHANGED <<num_classes, input_shape, history, saved, ev>>

predict_disease(image_array, class_names) ==
    /\ calls < MaxCalls
    /\ calls' = calls + 1
    /\ IF model = None
       THEN /\ outcome' = Raised("predict_disease", State(model), "AttributeError")
            /\ UNCHANGED seen
       ELSE LET prediction == Forward(Get(model), image_array)
                predicted_class_idx == ArgMax(prediction)
                result == [Returned("predict_disease", State(model)) EXCEPT
                             !.tensor = image_array,
                             !.names = class_names,
                             !.label = class_names[predicted_class_idx],
                             !.confidence = prediction[predicted_class_idx],
                             !.probabilities = prediction,
                             !.repeat = (seen # None /\ Get(seen)[1] = image_array
                                           /\ Get(seen)[2] = class_names)]
            IN /\ outcome' = result
               /\ seen' = Some(<<image_array, class_names, result.label, result.confidence,
                                 result.probabilities>>)
    /\ UNCHANGED <<num_classes, input_shape, model, history, disk, saved, ev>>

save_model(filepath) ==
    /\ calls < MaxCalls
    /\ calls' = calls + 1
    /\ IF dirname(filepath) = ""
       THEN /\ outcome' = [Raised("save_model", State(model), "FileNotFoundError") EXCEPT !.path = filepath]
            /\ UNCHANGED <<disk, saved>>
       ELSE IF model = None
       THEN /\ outcome' = [Raised("save_model", State(model), "AttributeError") EXCEPT !.path = filepath]
            /\ UNCHANGED <<disk, saved>>
       ELSE /\ disk' = [disk EXCEPT ![filepath] = Some(Serialize(Get(model)))]
            /\ saved' = [saved EXCEPT ![filepath] = Some([t \in Tensors |-> Forward(Get(model), t)])]
            /\ outcome' = [Returned("save_model", State(model)) EXCEPT !.path = filepath]
    /\ UNCHANGED <<num_classes, input_shape, model, history, seen, ev>>

load_model(filepath) ==
    /\ calls < MaxCalls
    /\ calls' = calls + 1
    /\ IF disk[filepath] = None
       THEN /\ outcome' = [Raised("load_model", State(model), "OSError") EXCEPT !.path = filepath]
            /\ UNCHANGED <<model, seen>>
       ELSE /\ model' = Some(Deserialize(Get(disk[filepath])))
            /\ seen' = NoSeen
            /\ outcome' = [Returned("load_model", State(model)) EXCEPT !.path = filepath]
    /\ UNCHANGED <<num_classes, input_shape, history, disk, saved, ev>>

-----------------------------------------------------------------------------
(* Specification of the classifier life cycle *)

NoEval == [op |-> "none"]

Init ==
    /\ num_classes \in ClassCounts
    /\ input_shape \in InputShapes
    /\ model = None
    /\ history = None
    /\ disk = [p \in Paths |-> None]
    /\ outcome = Returned("__init__", "Unbuilt")
    /\ seen = NoSeen
    /\ saved = [p \in CallerPaths |-> None]
    /\ calls = 0
    /\ ev = NoEval

Next ==
    \/ \E n \in ClassCounts, shape \in InputShapes : PlantDiseaseModel(n, shape)
    \/ \E w \in Weights : build_model(w)
    \/ \E lr \in LearningRates : compile_model(lr)
    \/ \E e \in EpochChoices : train_initial(e)
    \/ \E e \in EpochChoices, k \in UnfreezeChoices : fine_tune(e, k)
    \/ \E t \in Tensors : \E names \in NameLists(IF model = None THEN num_classes ELSE Get(model).numClasses) :
          predict_disease(t, names)
    \/ \E p \in CallerPaths : save_model(p)
    \/ \E p \in Paths : load_model(p)

Spec == Init /\ [][Next]_vars

-----------------------------------------------------------------------------
(* Exact ratios: <<numerator, denominator>> in lowest terms, 0 is <<0, 1>> *)

RECURSIVE GCD(_, _)
GCD(a, b) == IF b = 0 THEN a ELSE GCD(b, a % b)

Ratio(n, d) == IF n = 0 THEN <<0, 1>> ELSE <<n \div GCD(n, d), d \div GCD(n, d)>>
Zero == <<0, 1>>
RatAdd(x, y) == Ratio(x[1] * y[2] + y[1] * x[2], x[2] * y[2])
RatMul(x, y) == Ratio(x[1] * y[1], x[2] * y[2])
RatDiv(x, y) == Ratio(x[1] * y[2], x[2] * y[1])
\* a gap that counts only accuracy above confidence
RatClippedDiff(x, y) ==
    LET d == x[1] * y[2] - y[1] * x[2]
    IN Ratio(IF d < 0 THEN 0 ELSE d, x[2] * y[2])

RatAbsDiff(x, y) ==
    LET d == x[1] * y[2] - y[1] * x[2]
    IN Ratio(IF d < 0 THEN 0 - d ELSE d, x[2] * y[2])
RatPositive(x) == x[1] > 0

RECURSIVE SumSeq(_)
SumSeq(q) == IF q = <<>> THEN 0 ELSE Head(q) + SumSeq(Tail(q))

RECURSIVE RatSumSeq(_)
RatSumSeq(q) == IF q = <<>> THEN Zero ELSE RatAdd(Head(q), RatSumSeq(Tail(q)))

-----------------------------------------------------------------------------
(* sklearn.metrics.confusion_matrix(y_true, y_pred), called without labels=: *)
(* rows and columns are the sorted labels that occur in y_true or y_pred     *)

Count(y_true, y_pred, a, b) ==
    Cardinality({s \in 1..Len(y_true) : y_true[s] = a /\ y_pred[s] = b})

PresentLabels(y_true, y_pred) ==
    {y_true[s] : s \in 1..Len(y_true)} \cup {y_pred[s] : s \in 1..Len(y_pred)}

\* the r-th smallest element of a set of numbers
Ranked(S, r) == CHOOSE x \in S : Cardinality({y \in S : y < x}) = r - 1

confusion_matrix(y_true, y_pred) ==
    LET labels == PresentLabels(y_true, y_pred)
        k == Cardinality(labels)
    IN [i \in 1..k |-> [j \in 1..k |->
           Count(y_true, y_pred, Ranked(labels, i), Ranked(labels, j))]]

RowSum(cm, i) == SumSeq(cm[i])
ColSum(cm, j) == SumSeq([i \in 1..Len(cm) |-> cm[i][j]])
Total(cm) == SumSeq([i \in 1..Len(cm) |-> RowSum(cm, i)])

-----------------------------------------------------------------------------
(* ModelEvaluator.calculate_per_class_metrics *)

\* the body of the loop for the class at position i (1-based) of class_names
ClassMetrics(cm, i) ==
    LET tp == cm[i][i]
        fp == ColSum(cm, i) - tp
        fn == RowSum(cm, i) - tp
        tn == Total(cm) - tp - fp - fn
        precision == IF tp + fp > 0 THEN Ratio(tp, tp + fp) ELSE Zero
        recall == IF tp + fn > 0 THEN Ratio(tp, tp + fn) ELSE Zero
        f1 == IF RatPositive(RatAdd(precision, recall))
              THEN RatDiv(RatMul(<<2, 1>>, RatMul(precision, recall)), RatAdd(precision, recall))
              ELSE Zero
        specificity == IF tn + fp > 0 THEN Ratio(tn, tn + fp) ELSE Zero
    IN [precision |-> precision, recall |-> recall, f1_score |-> f1,
        specificity |-> specificity, support |-> RowSum(cm, i)]

\* cm[i, i] raises IndexError for the first class position beyond the matrix
calculate_per_class_metrics(class_names, y_true, y_pred) ==
    LET cm == confusion_matrix(y_true, y_pred)
    IN IF Len(cm) < Len(class_names)
       THEN [err |-> "IndexError", metrics |-> <<>>]
       ELSE [err |-> "", metrics |-> [i \in 1..Len(class_names) |-> ClassMetrics(cm, i)]]

-----------------------------------------------------------------------------
(* calculate_confidence_calibration *)

SeqMax(p) == p[ArgMax(p)]

\* a mask that takes the lower bound of a bin in as well
InBinClosed(max_prob, b, n_bins) ==
    /\ max_prob * n_bins >= (b - 1) * CalUnits
    /\ max_prob * n_bins <= b * CalUnits

\* (max_probs > bin_lower) & (max_probs <= bin_upper) for bin b of n_bins,
\* whose bounds are linspace(0, 1, n_bins + 1)[b - 1] and [b]
InBin(max_prob, b, n_bins) ==
    /\ max_prob * n_bins > (b - 1) * CalUnits
    /\ max_prob * n_bins <= b * CalUnits

calculate_confidence_calibration(y_true, y_pred_proba, n_bins) ==
    LET N == Len(y_pred_proba)
        max_probs == [s \in 1..N |-> SeqMax(y_pred_proba[s])]
        pred_classes == [s \in 1..N |-> ArgMax(y_pred_proba[s]) - 1]
        members(b) == {s \in 1..N : InBin(max_probs[s], b, n_bins)}
        population == [b \in 1..n_bins |-> Cardinality(members(b))]
        correct(b) == Cardinality({s \in members(b) : y_true[s] = pred_classes[s]})
        confsum(b) == SumSeq([s \in 1..N |-> IF s \in members(b) THEN max_probs[s] ELSE 0])
        accuracies == [b \in 1..n_bins |->
                         IF population[b] > 0 THEN Ratio(correct(b), population[b]) ELSE Zero]
        confidences == [b \in 1..n_bins |->
                         IF population[b] > 0 THEN Ratio(confsum(b), population[b] * CalUnits) ELSE Zero]
        ece == RatSumSeq([b \in 1..n_bins |->
                   RatMul(Ratio(population[b], N), RatAbsDiff(accuracies[b], confidences[b]))])
    IN [accuracies |-> accuracies,
        confidences |-> confidences,
        expected_calibration_error |-> ece,
        bin_boundaries |-> [b \in 1..(n_bins + 1) |-> Ratio(b - 1, n_bins)],
        population |-> population]

-----------------------------------------------------------------------------
(* Label arrays: a 1-D array of class indices, or a 2-D array with one row  *)
(* per sample (one-hot, or scores). Both are kept as a sequence of rows; a  *)
(* 1-D array has the class index as the only entry of its row.              *)

Array1(q) == [ndim |-> 1, rows |-> [s \in 1..Len(q) |-> <<q[s]>>]]

OneHot(c, n) == [j \in 1..n |-> IF j = c + 1 THEN 1 ELSE 0]
OneHotArray(q, n) == [ndim |-> 2, rows |-> [s \in 1..Len(q) |-> OneHot(q[s], n)]]

\* np.argmax(y, axis=1) if len(y.shape) > 1 else y
ClassIndices(y) ==
    IF y.ndim > 1 THEN [s \in 1..Len(y.rows) |-> ArgMax(y.rows[s]) - 1]
    ELSE [s \in 1..Len(y.rows) |-> y.rows[s][1]]

-----------------------------------------------------------------------------
(* analyze_model_errors *)

max_common_errors == 10

\* q[mask]: the entries of q at which the boolean array mask is true
RECURSIVE Masked(_, _)
Masked(q, mask) ==
    IF q = <<>> THEN <<>>
    ELSE (IF Head(mask) THEN <<Head(q)>> ELSE <<>>) \o Masked(Tail(q), Tail(mask))

\* list.sort(key=count, reverse=True): descending, equal counts keep their order
RECURSIVE InsertByCount(_, _)
InsertByCount(e, q) ==
    IF q = <<>> THEN <<e>>
    ELSE IF Head(q).count >= e.count THEN <<Head(q)>> \o InsertByCount(e, Tail(q))
    ELSE <<e>> \o q

RECURSIVE SortByCount(_)
SortByCount(q) ==
    IF q = <<>> THEN <<>>
    ELSE LET rest == SortByCount(SubSeq(q, 1, Len(q) - 1))
         IN InsertByCount(q[Len(q)], rest)

\* the (i, j) visited by the two loops over range(len(class_names)), in order
LoopPairs(n) == [k \in 1..(n * n) |-> <<((k - 1) \div n) + 1, ((k - 1) % n) + 1>>]

analyze_model_errors(y_true, y_pred, class_names) ==
    LET y_true_classes == ClassIndices(y_true)
        y_pred_classes == ClassIndices(y_pred)
        N == Len(y_true_classes)
        misclassified == [s \in 1..N |-> y_true_classes[s] # y_pred_classes[s]]
        total_errors == Cardinality({s \in 1..N : misclassified[s]})
        error_matrix == confusion_matrix(Masked(y_true_classes, misclassified),
                                         Masked(y_pred_classes, misclassified))
        n == Len(class_names)
        \* error_matrix[i, j] is read for every i # j
        out_of_bounds == \E k \in 1..(n * n) :
                            /\ LoopPairs(n)[k][1] # LoopPairs(n)[k][2]
                            /\ (LoopPairs(n)[k][1] > Len(error_matrix)
                                \/ LoopPairs(n)[k][2] > Len(error_matrix))
        entry(k) == LET i == LoopPairs(n)[k][1]
                        j == LoopPairs(n)[k][2]
                    IN [true_class |-> class_names[i], predicted_class |-> class_names[j],
                        count |-> IF i # j THEN error_matrix[i][j] ELSE 0]
        found(e) == e.count > 0
        common_errors == SortByCount(SelectSeq([k \in 1..(n * n) |-> entry(k)], found))
    IN IF out_of_bounds
       THEN [err |-> "IndexError", total_errors |-> 0, error_rate |-> Zero,
             misclassified_indices |-> <<>>, common_errors |-> <<>>]
       ELSE [err |-> "", total_errors |-> total_errors,
             error_rate |-> Ratio(total_errors, N),
             misclassified_indices |-> Masked([s \in 1..N |-> s - 1], misclassified),
             common_errors |-> SubSeq(common_errors, 1, Min(max_common_errors, Len(common_errors)))]

-----------------------------------------------------------------------------
(* ModelEvaluator.evaluate_predictions and calculate_roc_curves *)

\* sklearn's label_binarize(y, classes=range(n)): one column per class, but a
\* single column (the indicator of class 1) when there are two classes
label_binarize(y, n) ==
    IF n = 2 THEN [s \in 1..Len(y) |-> <<IF y[s] = 1 THEN 1 ELSE 0>>]
    ELSE [s \in 1..Len(y) |-> OneHot(y[s], n)]

\* auc(roc_curve(labels, scores)) of two arrays of the same length: the
\* share of (positive, negative) pairs that the scores rank right, a tie
\* counting one half; nan (None) without a positive or without a negative
AreaUnderCurve(labels, scores) ==
    LET pos == {k \in 1..Len(labels) : labels[k] = 1}
        neg == (1..Len(labels)) \ pos
        above == Cardinality({pq \in pos \X neg : scores[pq[1]] > scores[pq[2]]})
        ties == Cardinality({pq \in pos \X neg : scores[pq[1]] = scores[pq[2]]})
    IN IF pos = {} \/ neg = {} THEN None
       ELSE Some(Ratio(2 * above + ties, 2 * Cardinality(pos) * Cardinality(neg)))

\* a.ravel() of a 2-D array with n columns
Ravel(a, n) == [k \in 1..(Len(a) * n) |-> a[((k - 1) \div n) + 1][((k - 1) % n) + 1]]

calculate_roc_curves(y_true, y_pred_proba, n) ==
    IF y_true.ndim = 1
    THEN [err |-> "AxisError", auc |-> <<>>, micro |-> None]      \* np.argmax(y_true, axis=1)
    ELSE LET y_true_bin == label_binarize(ClassIndices(y_true), n)
             N == Len(y_true_bin)
             column(a, i) == [s \in 1..N |-> a[s][i]]
         IN IF Len(y_true_bin[1]) < n
            THEN [err |-> "IndexError", auc |-> <<>>, micro |-> None]   \* y_true_bin[:, i]
            ELSE [err |-> "",
                  auc |-> [i \in 1..n |-> AreaUnderCurve(column(y_true_bin, i), column(y_pred_proba, i))],
                  micro |-> AreaUnderCurve(Ravel(y_true_bin, n), Ravel(y_pred_proba, n))]

\* the support-weighted mean of the per-label scores (average='weighted')
WeightedMean(cm, scores) ==
    RatSumSeq([i \in 1..Len(cm) |-> RatMul(Ratio(RowSum(cm, i), Total(cm)), scores[i])])

evaluate_predictions(class_names, y_true, y_pred, y_pred_proba) ==
    LET y_true_classes == ClassIndices(y_true)
        y_pred_classes == ClassIndices(y_pred)
        N == Len(y_true_classes)
        cm == confusion_matrix(y_true_classes, y_pred_classes)
        accuracy == Ratio(Cardinality({s \in 1..N : y_true_classes[s] = y_pred_classes[s]}), N)
        per_label == [i \in 1..Len(cm) |-> ClassMetrics(cm, i)]
        report == [i \in 1..Len(cm) |->
                     [name |-> class_names[i], precision |-> per_label[i].precision,
                      recall |-> per_label[i].recall, f1_score |-> per_label[i].f1_score,
                      support |-> per_label[i].support]]
        roc == IF y_pred_proba # None
               THEN calculate_roc_curves(y_true, Get(y_pred_proba), Len(class_names))
               ELSE [err |-> "", auc |-> <<>>, micro |-> None]
        failed(e) == [err |-> e, accuracy |-> Zero, precision |-> Zero, recall |-> Zero,
                      f1_score |-> Zero, classification_report |-> <<>>,
                      confusion_matrix |-> <<>>, roc_curves |-> None]
    IN IF Len(cm) # Len(class_names)
       THEN failed("ValueError")          \* classification_report: target_names do not match
       ELSE IF roc.err # ""
       THEN failed(roc.err)
       ELSE [err |-> "",
             accuracy |-> accuracy,
             precision |-> WeightedMean(cm, [i \in 1..Len(cm) |-> per_label[i].precision]),
             recall |-> WeightedMean(cm, [i \in 1..Len(cm) |-> per_label[i].recall]),
             f1_score |-> WeightedMean(cm, [i \in 1..Len(cm) |-> per_label[i].f1_score]),
             classification_report |-> report,
             confusion_matrix |-> cm,
             roc_curves |-> IF y_pred_proba # None
                            THEN Some([auc |-> roc.auc, micro |-> roc.micro]) ELSE None]

-----------------------------------------------------------------------------
(* Specification of the evaluation functions: Init draws the arguments of   *)
(* one call, the action applies the function.                               *)

Call(op, n, y_true, y_pred, proba, n_bins) ==
    [op |-> op, done |-> FALSE, n |-> n, y_true |-> y_true, y_pred |-> y_pred,
     y_pred_proba |-> proba, n_bins |-> n_bins, err |-> "", result |-> <<>>]

Batches(n, len) == [1..len -> 0..(n - 1)]

\* the batch whose confusion matrix is [[8, 2], [1, 9]]
ScenarioTrue == [s \in 1..20 |-> IF s <= 10 THEN 0 ELSE 1]
ScenarioPred == [s \in 1..20 |-> IF s <= 8 THEN 0 ELSE IF s <= 10 THEN 1 ELSE IF s = 11 THEN 0 ELSE 1]

PerClassCalls ==
    {Call("calculate_per_class_metrics", 2, ScenarioTrue, ScenarioPred, <<>>, 0)} \cup
    UNION {{Call("calculate_per_class_metrics", n, yt, yp, <<>>, 0) :
              yt \in Batches(n, len), yp \in Batches(n, len)} :
           n \in ClassCounts, len \in 1..MaxBatch}

\* calibration is exercised on two-class batches, probabilities in units of
\* 1/CalUnits
CalClassCounts == {2}

CompositionSet(n, q) == {Compositions(n, q)[i] : i \in 1..Len(Compositions(n, q))}

CalibrationCalls ==
    UNION {{Call("calculate_confidence_calibration", n, yt, <<>>, proba, bins) :
              yt \in Batches(n, len), proba \in [1..len -> CompositionSet(n, CalUnits)],
              bins \in 1..MaxBins} :
           n \in CalClassCounts, len \in 1..MaxCalBatch}

\* the batch true = [0, 0, 1, 1], pred = [0, 1, 1, 0]
ErrorScenarioTrue == <<0, 0, 1, 1>>
ErrorScenarioPred == <<0, 1, 1, 0>>

AnalyzeCalls ==
    {Call("analyze_model_errors", 2, Array1(ErrorScenarioTrue), Array1(ErrorScenarioPred), <<>>, 0)} \cup
    UNION {{Call("analyze_model_errors", n, Array1(yt), Array1(yp), <<>>, 0) :
              yt \in Batches(n, len), yp \in Batches(n, len)} \cup
           {Call("analyze_model_errors", n, OneHotArray(yt, n), OneHotArray(yp, n), <<>>, 0) :
              yt \in Batches(n, len), yp \in Batches(n, len)} :
           n \in ClassCounts, len \in 1..MaxBatch}

\* evaluate_predictions is exercised on batches of two and three classes
EvalClassCounts == {2, 3}

\* scores that put the predicted class first: 2 for it, 1 for the others
Scores(yp, n) == [s \in 1..Len(yp) |-> [j \in 1..n |-> IF j = yp[s] + 1 THEN 2 ELSE 1]]

Encoded(q, n, ndim) == IF ndim = 1 THEN Array1(q) ELSE OneHotArray(q, n)

\* predictions for a batch of true classes: all right, all wrong (the next
\* class), and the true classes in reverse order
Predictions(yt, n) ==
    {yt, [s \in 1..Len(yt) |-> (yt[s] + 1) % n], [s \in 1..Len(yt) |-> yt[Len(yt) + 1 - s]]}

EvaluateCallsOn(n, yt) ==
    {Call("evaluate_predictions", n, Encoded(yt, n, dt), Encoded(yp, n, dp),
          IF with_proba THEN Some(Scores(yp, n)) ELSE None, 0) :
        dt \in {1, 2}, dp \in {1, 2}, with_proba \in BOOLEAN, yp \in Predictions(yt, n)}

EvaluateCalls ==
    UNION {UNION {EvaluateCallsOn(n, yt) : yt \in Batches(n, len)} :
           n \in EvalClassCounts, len \in 1..MaxEvalBatch}

EvalInit ==
    /\ num_classes = 2
    /\ input_shape = 224
    /\ model = None
    /\ history = None
    /\ disk = [p \in Paths |-> None]
    /\ outcome = Returned("__init__", "Unbuilt")
    /\ seen = NoSeen
    /\ saved = [p \in CallerPaths |-> None]
    /\ calls = 0
    /\ \/ ev \in PerClassCalls
       \/ ev \in CalibrationCalls
       \/ ev \in AnalyzeCalls
       \/ ev \in EvaluateCalls

PerClassMetricsCall ==
    /\ ev.op = "calculate_per_class_metrics"
    /\ ~ev.done
    /\ LET r == calculate_per_class_metrics(SubSeq(ClassPool, 1, ev.n), ev.y_true, ev.y_pred)
       IN ev' = [ev EXCEPT !.done = TRUE, !.err = r.err, !.result = r.metrics]
    /\ UNCHANGED <<num_classes, input_shape, model, history, disk, outcome, seen, saved, calls>>

CalibrationCall ==
    /\ ev.op = "calculate_confidence_calibration"
    /\ ~ev.done
    /\ ev' = [ev EXCEPT !.done = TRUE,
                        !.result = calculate_confidence_calibration(ev.y_true, ev.y_pred_proba, ev.n_bins)]
    /\ UNCHANGED <<num_classes, input_shape, model, history, disk, outcome, seen, saved, calls>>

AnalyzeErrorsCall ==
    /\ ev.op = "analyze_model_errors"
    /\ ~ev.done
    /\ LET r == analyze_model_errors(ev.y_true, ev.y_pred, SubSeq(ClassPool, 1, ev.n))
       IN ev' = [ev EXCEPT !.done = TRUE, !.err = r.err, !.result = r]
    /\ UNCHANGED <<num_classes, input_shape, model, history, disk, outcome, seen, saved, calls>>

EvaluatePredictionsCall ==
    /\ ev.op = "evaluate_predictions"
    /\ ~ev.done
    /\ LET r == evaluate_predictions(SubSeq(ClassPool, 1, ev.n), ev.y_true, ev.y_pred, ev.y_pred_proba)
       IN ev' = [ev EXCEPT !.done = TRUE, !.err = r.err, !.result = r]
    /\ UNCHANGED <<num_classes, input_shape, model, history, disk, outcome, seen, saved, calls>>

EvalNext == PerClassMetricsCall \/ CalibrationCall \/ AnalyzeErrorsCall \/ EvaluatePredictionsCall

SpecEval == EvalInit /\ [][EvalNext]_vars

-----------------------------------------------------------------------------
(* Images (backend/utils/preprocessing.py). An image object is a PIL image  *)
(* or a numpy array, or something that is neither. Where only the shape and *)
(* the range of the values matter an image is kept as its mode, its width   *)
(* and height and bounds lo..hi of its channel values.                      *)

PILModes == {"1", "L", "P", "RGB", "RGBA"}
ArrayModes == {"L", "RGB", "RGBA"}         \* uint8 arrays of shape (h, w), (h, w, 3), (h, w, 4)

Bands(mode) == IF mode = "RGB" THEN 3 ELSE IF mode = "RGBA" THEN 4 ELSE 1

ImageObject(kind, mode, width, height, lo, hi) ==
    [kind |-> kind, mode |-> mode, width |-> width, height |-> height, lo |-> lo, hi |-> hi]

\* the images of a kind: every mode, every size up to MaxSide, values
\* between two of the levels 0, 128 and 255
ImagesOf(kind, modes) ==
    {ImageObject(kind, m, w, h, r[1], r[2]) :
        m \in modes, w \in 1..MaxSide, h \in 1..MaxSide,
        r \in {lh \in {0, 128, 255} \X {0, 128, 255} : lh[1] <= lh[2]}}

ValidImages == ImagesOf("PIL", PILModes) \cup ImagesOf("ndarray", ArrayModes)

\* objects that are no pixel grid of non-zero width and height: None, a file
\* name, an array without rows or without columns
InvalidImages ==
    {ImageObject("NoneType", "", 0, 0, 0, 0), ImageObject("str", "", 0, 0, 0, 0),
     ImageObject("ndarray", "RGB", 0, 0, 0, 0), ImageObject("ndarray", "RGB", 0, 1, 0, 0),
     ImageObject("ndarray", "RGB", 1, 0, 0, 0)}

-----------------------------------------------------------------------------
(* ImagePreprocessor.preprocess_image *)

target_size == <<224, 224>>

\* Image.fromarray(array) when the argument is an ndarray
FromArray(image) == [image EXCEPT !.kind = "PIL"]

\* image.resize(size, LANCZOS): a new image of the requested size; the filter
\* may overshoot the range of the source by at most its width and the result
\* is clipped to 0..255 (modes "1" and "P" are resampled by NEAREST and keep
\* their values)
Resize(image, size) ==
    LET spread == IF image.mode \in {"1", "P"} \/ (image.width = size[1] /\ image.height = size[2])
                  THEN 0 ELSE image.hi - image.lo
    IN [image EXCEPT !.width = size[1], !.height = size[2],
                     !.lo = Max(0, image.lo - spread),
                     !.hi = Min(255, image.hi + spread)]

\* a conversion that leaves the mode as it is
ConvertKeepsMode(image, mode) == image

\* image.convert('RGB'): three 8-bit bands; a palette or bilevel image may
\* map to any 8-bit value
Convert(image, mode) ==
    IF image.mode \in {"1", "P"}
    THEN [image EXCEPT !.mode = mode, !.lo = 0, !.hi = 255]
    ELSE [image EXCEPT !.mode = mode]

\* np.array(image): shape (height, width, bands), or (height, width) for one band
ToArray(image) ==
    [shape |-> IF Bands(image.mode) = 1 THEN <<image.height, image.width>>
               ELSE <<image.height, image.width, Bands(image.mode)>>,
     dtype |-> "uint8", lo |-> Ratio(image.lo, 1), hi |-> Ratio(image.hi, 1)]

\* img_array.astype('float32') / 255.0
Normalized(a) ==
    [a EXCEPT !.dtype = "float32", !.lo = RatDiv(a.lo, <<255, 1>>), !.hi = RatDiv(a.hi, <<255, 1>>)]

\* np.expand_dims(img_array, axis=0)
ExpandDims(a) == [a EXCEPT !.shape = <<1>> \o a.shape]

NoTensor == [shape |-> <<>>, dtype |-> "", lo |-> Zero, hi |-> Zero]

\* the outcomes of preprocess_image(image, normalize): a set, because what
\* Pillow does with an array without pixels differs between its versions
preprocess_image(image, normalize) ==
    IF image.kind \notin {"PIL", "ndarray"}
    THEN {[err |-> "AttributeError", tensor |-> NoTensor]}            \* image.resize
    ELSE LET pil == IF image.kind = "ndarray" THEN FromArray(image) ELSE image
             resized == Resize(pil, target_size)
             rgb == IF resized.mode # "RGB" THEN Convert(resized, "RGB") ELSE resized
             img_array == ToArray(rgb)
             scaled == IF normalize THEN Normalized(img_array) ELSE img_array
             returned == [err |-> "", tensor |-> ExpandDims(scaled)]
         IN IF image.width = 0 \/ image.height = 0
            THEN {[err |-> "ValueError", tensor |-> NoTensor], returned}
            ELSE {returned}

-----------------------------------------------------------------------------
(* ImagePreprocessor.remove_background, on images kept pixel by pixel: a    *)
(* sequence of rows of three-channel pixels, in the order they are stored   *)

Black == <<0, 0, 0>>

\* the pixels of the images: a leaf green (10, 200, 50), a soil brown
\* (120, 60, 20), and black
Palette == {<<10, 200, 50>>, <<120, 60, 20>>, Black}

lower_green == <<35, 40, 40>>
upper_green == <<85, 255, 255>>
kernel_radius == 2             \* np.ones((5, 5)): two pixels on each side of the anchor

PixelImage(kind, pixels) == [kind |-> kind, pixels |-> pixels]
Height(pixels) == Len(pixels)
Width(pixels) == Len(pixels[1])

\* np.array: the 2-D array with the entries of rows, stored
Array(rows) ==
    SubSeq([r \in 1..Len(rows) |-> SubSeq(rows[r], 1, Len(rows[r]))], 1, Len(rows))

\* cv2.COLOR_RGB2BGR and cv2.COLOR_BGR2RGB: the first and third channel change places
SwapChannels(pixels) ==
    Array([r \in 1..Height(pixels) |-> [c \in 1..Width(pixels) |->
        <<pixels[r][c][3], pixels[r][c][2], pixels[r][c][1]>>]])

\* a / b rounded to the nearest integer, b > 0
Rounded(a, b) == (2 * a + b) \div (2 * b)

\* cv2.COLOR_BGR2HSV of one 8-bit pixel: H in 0..179 (half degrees), S and V in 0..255
BGR2HSV(p) ==
    LET b == p[1]
        g == p[2]
        r == p[3]
        v == Max(r, Max(g, b))
        d == v - Min(r, Min(g, b))
        h2 == IF d = 0 THEN 0
              ELSE IF v = r THEN 30 * (g - b)
              ELSE IF v = g THEN 60 * d + 30 * (b - r)
              ELSE 120 * d + 30 * (r - g)
        h == IF d = 0 THEN 0 ELSE Rounded(IF h2 < 0 THEN h2 + 180 * d ELSE h2, d) % 180
        sat == IF v = 0 THEN 0 ELSE Rounded(255 * d, v)
    IN <<h, sat, v>>

\* cv2.inRange(hsv, lower_green, upper_green) at one pixel
InRange(hsv) == \A k \in 1..3 : lower_green[k] <= hsv[k] /\ hsv[k] <= upper_green[k]

\* the pixels of the image under the kernel anchored at (r, c)
Under(mask, r, c) ==
    {rc \in (1..Height(mask)) \X (1..Width(mask)) :
        /\ rc[1] - r <= kernel_radius /\ r - rc[1] <= kernel_radius
        /\ rc[2] - c <= kernel_radius /\ c - rc[2] <= kernel_radius}

Dilate(mask) ==
    Array([r \in 1..Height(mask) |-> [c \in 1..Width(mask) |->
        \E rc \in Under(mask, r, c) : mask[rc[1]][rc[2]]]])

Erode(mask) ==
    Array([r \in 1..Height(mask) |-> [c \in 1..Width(mask) |->
        \A rc \in Under(mask, r, c) : mask[rc[1]][rc[2]]]])

\* cv2.bitwise_and(image, image, mask=mask)
BitwiseAnd(pixels, mask) ==
    Array([r \in 1..Height(pixels) |-> [c \in 1..Width(pixels) |->
        IF mask[r][c] THEN pixels[r][c] ELSE Black]])

remove_background(image) ==
    LET bgr == IF image.kind = "PIL" THEN SwapChannels(image.pixels) ELSE image.pixels
        hsv == Array([r \in 1..Height(bgr) |-> [c \in 1..Width(bgr) |-> BGR2HSV(bgr[r][c])]])
        mask == Array([r \in 1..Height(bgr) |-> [c \in 1..Width(bgr) |-> InRange(hsv[r][c])]])
        closed == Erode(Dilate(mask))            \* morphologyEx(mask, MORPH_CLOSE, kernel)
        opened == Dilate(Erode(closed))          \* morphologyEx(mask, MORPH_OPEN, kernel)
        result == BitwiseAnd(bgr, opened)
    IN PixelImage("PIL", SwapChannels(result))

-----------------------------------------------------------------------------
(* crop_leaf_region *)

\* margin: the default 0.1, and 1/2
Margins == {<<1, 10>>, <<1, 2>>}

\* a contour as the code uses it: its bounding rectangle and its area
Contour(x, y, w, h, area) == [x |-> x, y |-> y, w |-> w, h |-> h, area |-> area]

\* cvtColor, GaussianBlur, Canny and findContours: an image of one solid
\* colour has no edge and so no contour; in any other image the contours are
\* those the edge detector finds (detected, possibly none)
FindContours(image, detected) == IF image.lo = image.hi THEN <<>> ELSE detected

\* max(contours, key=cv2.contourArea): the first contour of the largest area
LargestContour(contours) ==
    contours[CHOOSE i \in 1..Len(contours) :
                /\ \A j \in 1..Len(contours) : contours[j].area <= contours[i].area
                /\ \A j \in 1..(i - 1) : contours[j].area < contours[i].area]

\* int(w * margin)
MarginOf(side, margin) == (side * margin[1]) \div margin[2]

\* a fallback that hands back a copy of the image
UncroppedCopy(image) ==
    [same_object |-> FALSE, image |-> [image EXCEPT !.kind = "PIL"],
     box |-> <<0, 0, image.width, image.height>>]

\* return image
Uncropped(image) ==
    [same_object |-> TRUE, image |-> image, box |-> <<0, 0, image.width, image.height>>]

crop_leaf_region(image, margin, detected) ==
    LET contours == FindContours(image, detected)
        largest_contour == LargestContour(contours)
        margin_x == MarginOf(largest_contour.w, margin)
        margin_y == MarginOf(largest_contour.h, margin)
        x == Max(0, largest_contour.x - margin_x)
        y == Max(0, largest_contour.y - margin_y)
        w == Min(image.width - x, largest_contour.w + 2 * margin_x)
        h == Min(image.height - y, largest_contour.h + 2 * margin_y)
    IN IF contours # <<>>
       THEN [same_object |-> FALSE,
             image |-> [image EXCEPT !.kind = "PIL", !.width = w, !.height = h],
             box |-> <<x, y, x + w, y + h>>]           \* img_array[y:y+h, x:x+w]
       ELSE Uncropped(image)

-----------------------------------------------------------------------------
(* Specification of the image functions: Init draws the arguments of one    *)
(* call, the action applies the function.                                   *)

PreprocessCalls ==
    {[op |-> "preprocess_image", done |-> FALSE, image |-> i, normalize |-> z,
      err |-> "", result |-> NoTensor] :
        i \in ValidImages \cup InvalidImages, z \in BOOLEAN}

\* the contours that fit in an image of the given size
ContoursIn(width, height) ==
    {c \in [x : 0..(width - 1), y : 0..(height - 1), w : 1..width, h : 1..height, area : 1..2] :
        c.x + c.w <= width /\ c.y + c.h <= height}

\* no contour, one contour, or a contour followed by a small one at the origin
DetectedIn(width, height) ==
    {<<>>} \cup
    {<<c>> : c \in ContoursIn(width, height)} \cup
    {<<c, Contour(0, 0, 1, 1, a)>> : c \in ContoursIn(width, height), a \in 1..2}

CropCalls ==
    UNION {{[op |-> "crop_leaf_region", done |-> FALSE, image |-> i, margin |-> m,
             detected |-> d, err |-> "", result |-> Uncropped(i)] :
               m \in Margins, d \in DetectedIn(i.width, i.height)} :
           i \in {ImageObject(k, "RGB", w, h, r[1], r[2]) :
                     k \in {"PIL", "ndarray"}, w \in 1..MaxCropWidth, h \in 1..MaxCropHeight,
                     r \in {<<128, 128>>, <<0, 255>>}}}

\* pixel grids: one or two columns of up to MaxGrid rows, and one row of
\* MaxStrip pixels (wider than the kernel)
PixelGrids ==
    UNION {[1..hw[1] -> [1..hw[2] -> Palette]] :
              hw \in ((1..MaxGrid) \X (1..2)) \cup {<<1, MaxStrip>>}}

RemoveBackgroundCalls ==
    {[op |-> "remove_background", done |-> FALSE, image |-> PixelImage(k, g),
      err |-> "", result |-> PixelImage(k, g)] :
        k \in {"PIL", "ndarray"}, g \in PixelGrids}

ImageInit ==
    /\ num_classes = 2
    /\ input_shape = 224
    /\ model = None
    /\ history = None
    /\ disk = [p \in Paths |-> None]
    /\ outcome = Returned("__init__", "Unbuilt")
    /\ seen = NoSeen
    /\ saved = [p \in CallerPaths |-> None]
    /\ calls = 0
    /\ \/ ev \in PreprocessCalls
       \/ ev \in CropCalls
       \/ ev \in RemoveBackgroundCalls

PreprocessCall ==
    /\ ev.op = "preprocess_image"
    /\ ~ev.done
    /\ \E r \in preprocess_image(ev.image, ev.normalize) :
          ev' = [ev EXCEPT !.done = TRUE, !.err = r.err, !.result = r.tensor]
    /\ UNCHANGED <<num_classes, input_shape, model, history, disk, outcome, seen, saved, calls>>

CropCall ==
    /\ ev.op = "crop_leaf_region"
    /\ ~ev.done
    /\ ev' = [ev EXCEPT !.done = TRUE,
                        !.result = crop_leaf_region(ev.image, ev.margin, ev.detected)]
    /\ UNCHANGED <<num_classes, input_shape, model, history, disk, outcome, seen, saved, calls>>

RemoveBackgroundCall ==
    /\ ev.op = "remove_background"
    /\ ~ev.done
    /\ ev' = [ev EXCEPT !.done = TRUE, !.result = remove_background(ev.image)]
    /\ UNCHANGED <<num_classes, input_shape, model, history, disk, outcome, seen, saved, calls>>

ImageNext == PreprocessCall \/ CropCall \/ RemoveBackgroundCall

SpecImage == ImageInit /\ [][ImageNext]_vars

-----------------------------------------------------------------------------
(* Specification of concurrent requests: the threads of the server call the *)
(* methods of one shared PlantDiseaseModel (the module-level instance of    *)
(* backend/app.py). A call is a begin step, for a training call one step    *)
(* per epoch, and an end step; no method of the class takes a lock, so      *)
(* nothing in a begin step looks at what the other threads are doing.       *)

Threads == 1..MaxThreads
Training == {"train_initial", "fine_tune"}

Idle == [op |-> "idle", left |-> 0, read |-> 0]
Running(op, left, read) == [op |-> op, left |-> left, read |-> read]

ConcInit ==
    /\ num_classes = 2
    /\ input_shape = 224
    /\ model = Some(Compile(NewModel(2, 224, 1), default_learning_rate))
    /\ history = None
    /\ disk = [p \in Paths |-> None]
    /\ outcome = Returned("compile_model", "Built")
    /\ seen = NoSeen
    /\ saved = [p \in CallerPaths |-> None]
    /\ calls = 0
    /\ ev = [op |-> "serve", active |-> [t \in Threads |-> Idle]]

\* a thread enters a method
Enter(t, running) ==
    /\ calls < MaxCalls
    /\ calls' = calls + 1
    /\ ev.active[t] = Idle
    /\ ev' = [ev EXCEPT !.active[t] = running]

\* train_initial up to the call of fit
BeginTrainInitial(t, epochs) ==
    /\ CanFit(Get(model))
    /\ Enter(t, Running("train_initial", epochs, 0))
    /\ UNCHANGED <<num_classes, input_shape, model, history, disk, outcome, seen, saved>>

\* fine_tune up to the call of fit: unfreeze, recompile
BeginFineTune(t, epochs, unfreeze_layers) ==
    /\ Enter(t, Running("fine_tune", epochs, 0))
    /\ model' = Some(Compile(Unfreeze(Get(model), unfreeze_layers), fine_tune_learning_rate))
    /\ UNCHANGED <<num_classes, input_shape, history, disk, outcome, seen, saved>>

\* one epoch of a fit: the weights of the shared model are overwritten
FitEpoch(t, w) ==
    /\ ev.active[t].op \in Training
    /\ ev.active[t].left > 0
    /\ model' = Some([Get(model) EXCEPT !.w = w])
    /\ ev' = [ev EXCEPT !.active[t].left = @ - 1]
    /\ UNCHANGED <<num_classes, input_shape, history, disk, outcome, seen, saved, calls>>

\* fit returns; train_initial stores the history
EndTraining(t) ==
    /\ ev.active[t].op \in Training
    /\ ev.active[t].left = 0
    /\ IF ev.active[t].op = "train_initial"
       THEN /\ model' = Some([Get(model) EXCEPT !.trained = TRUE])
            /\ history' = Some(<<[epoch |-> 1]>>)
       ELSE /\ model' = Some([Get(model) EXCEPT !.fineTuned = TRUE])
            /\ history' = history
    /\ ev' = [ev EXCEPT !.active[t] = Idle]
    /\ UNCHANGED <<num_classes, input_shape, disk, outcome, seen, saved, calls>>

\* predict_disease: the forward pass starts on the weights it finds
BeginPredict(t) ==
    /\ Enter(t, Running("predict_disease", 0, Get(model).w))
    /\ UNCHANGED <<num_classes, input_shape, model, history, disk, outcome, seen, saved>>

\* save_model: the file is written from the weights found when it ends
BeginSave(t) ==
    /\ Enter(t, Running("save_model", 0, Get(model).w))
    /\ UNCHANGED <<num_classes, input_shape, model, history, disk, outcome, seen, saved>>

EndRead(t) ==
    /\ ev.active[t].op \in {"predict_disease", "save_model"}
    /\ IF ev.active[t].op = "save_model"
       THEN disk' = [disk EXCEPT ![default_model_path] = Some(Serialize(Get(model)))]
       ELSE disk' = disk
    /\ ev' = [ev EXCEPT !.active[t] = Idle]
    /\ UNCHANGED <<num_classes, input_shape, model, history, outcome, seen, saved, calls>>

ConcNext ==
    \/ \E t \in Threads, e \in EpochChoices : BeginTrainInitial(t, e)
    \/ \E t \in Threads, e \in EpochChoices, k \in UnfreezeChoices : BeginFineTune(t, e, k)
    \/ \E t \in Threads, w \in Weights : FitEpoch(t, w)
    \/ \E t \in Threads : EndTraining(t)
    \/ \E t \in Threads : BeginPredict(t)
    \/ \E t \in Threads : BeginSave(t)
    \/ \E t \in Threads : EndRead(t)

SpecConc == ConcInit /\ [][ConcNext]_vars

-----------------------------------------------------------------------------
(* Specification of one training call, epoch by epoch: Model.fit with the    *)
(* callbacks of train_initial and of fine_tune. The validation accuracy and  *)
(* the validation loss of an epoch are inputs; the weights an epoch leaves   *)
(* in the model are named by the number of the epoch. A callback's best      *)
(* value is None until the first epoch (-inf for val_accuracy, inf for       *)
(* val_loss). Validation losses are in units of 1e-4; an epoch's accuracy   *)
(* is one of two levels and its loss one of three.                           *)

\* ReduceLROnPlateau's default min_delta = 1e-4: only a loss more than
\* min_delta below the best counts as an improvement
min_delta == 1

\* the callbacks a call hands to fit: the patience of EarlyStopping, the
\* patience and min_lr of ReduceLROnPlateau, the file of ModelCheckpoint
Callbacks(call) ==
    IF call = "train_initial"
    THEN [es_patience |-> 3, lr_patience |-> 2, min_lr |-> 100,
          filepath |-> initial_checkpoint_path]
    ELSE [es_patience |-> 5, lr_patience |-> 3, min_lr |-> 10,
          filepath |-> fine_tuned_checkpoint_path]

\* fit and its callbacks at on_train_begin; rate is the learning rate that
\* compile_model was called with
Fitting(call, rate, epochs) ==
    [op |-> "fit", call |-> call, phase |-> "fitting", rate |-> rate, epochs |-> epochs,
     logs |-> <<>>, stop_training |-> FALSE,
     es_best |-> None, es_wait |-> 0, best_weights |-> None,
     checkpoint_best |-> None,
     lr_best |-> None, lr_wait |-> 0]

FitInit ==
    /\ num_classes = 2
    /\ input_shape = 224
    /\ \E lr \in LearningRates :
          /\ model = Some(Compile(NewModel(2, 224, 0), lr))
          /\ ev = [Fitting("none", lr, 0) EXCEPT !.phase = "ready"]
    /\ history = None
    /\ disk = [p \in Paths |-> None]
    /\ outcome = Returned("compile_model", "Built")
    /\ seen = NoSeen
    /\ saved = [p \in CallerPaths |-> None]
    /\ calls = 0

\* train_initial up to the call of fit
TrainInitialBegins(epochs) ==
    /\ ev.phase = "ready"
    /\ CanFit(Get(model))
    /\ ev' = Fitting("train_initial", ev.rate, epochs)
    /\ UNCHANGED <<num_classes, input_shape, model, history, disk, outcome, seen, saved, calls>>

\* fine_tune up to the call of fit: unfreeze, recompile
FineTuneBegins(epochs, unfreeze_layers) ==
    /\ ev.phase = "ready"
    /\ model' = Some(Compile(Unfreeze(Get(model), unfreeze_layers), fine_tune_learning_rate))
    /\ ev' = Fitting("fine_tune", ev.rate, epochs)
    /\ UNCHANGED <<num_classes, input_shape, history, disk, outcome, seen, saved, calls>>

\* one epoch and on_epoch_end of History, EarlyStopping, ModelCheckpoint and
\* ReduceLROnPlateau, in the order of the callback list
EpochEnds(val_accuracy, val_loss) ==
    /\ ev.phase = "fitting"
    /\ ~ev.stop_training
    /\ Len(ev.logs) < ev.epochs
    /\ LET cb == Callbacks(ev.call)
           epoch == Len(ev.logs) + 1
           trained == IF ev.call = "train_initial"
                      THEN [Get(model) EXCEPT !.w = epoch, !.trained = TRUE]
                      ELSE [Get(model) EXCEPT !.w = epoch, !.fineTuned = TRUE]
           \* EarlyStopping(monitor='val_accuracy', restore_best_weights=True)
           es_improved == ev.es_best = None \/ val_accuracy > Get(ev.es_best)
           es_wait == IF es_improved THEN 0 ELSE ev.es_wait + 1
           best_weights == IF es_improved THEN Some(epoch) ELSE ev.best_weights
           stop == es_wait >= cb.es_patience
           restored == IF stop THEN [trained EXCEPT !.w = Get(best_weights)] ELSE trained
           \* ModelCheckpoint(save_best_only=True, monitor='val_accuracy')
           save == ev.checkpoint_best = None \/ val_accuracy > Get(ev.checkpoint_best)
           \* ReduceLROnPlateau(monitor='val_loss', factor=0.2)
           lr_improved == ev.lr_best = None \/ val_loss < Get(ev.lr_best) - min_delta
           lr_wait == IF lr_improved THEN 0 ELSE ev.lr_wait + 1
           due == lr_wait >= cb.lr_patience
       IN /\ model' = Some([restored EXCEPT !.lr = IF due THEN ReduceLR(@, cb.min_lr) ELSE @])
          /\ disk' = IF save THEN [disk EXCEPT ![cb.filepath] = Some(Serialize(restored))]
                     ELSE disk
          /\ ev' = [ev EXCEPT
                      !.logs = Append(@, [epoch |-> epoch, val_accuracy |-> val_accuracy,
                                          val_loss |-> val_loss]),
                      !.stop_training = stop,
                      !.es_best = IF es_improved THEN Some(val_accuracy) ELSE @,
                      !.es_wait = es_wait,
                      !.best_weights = best_weights,
                      !.checkpoint_best = IF save THEN Some(val_accuracy) ELSE @,
                      !.lr_best = IF lr_improved THEN Some(val_loss) ELSE @,
                      !.lr_wait = IF due /\ restored.lr > cb.min_lr THEN 0 ELSE lr_wait]
    /\ UNCHANGED <<num_classes, input_shape, history, outcome, seen, saved, calls>>

\* fit returns after the last epoch or after EarlyStopping stopped it.
\* on_train_end of EarlyStopping puts the best weights back in the Keras
\* versions that restore at the end of every training; the versions that
\* restore only in the epoch that stops the training leave the weights of the
\* last epoch. train_initial stores the History in self.history.
FitReturns ==
    /\ ev.phase = "fitting"
    /\ ev.stop_training \/ Len(ev.logs) = ev.epochs
    /\ \E on_train_end \in BOOLEAN :
          model' = IF on_train_end /\ ev.best_weights # None
                   THEN Some([Get(model) EXCEPT !.w = Get(ev.best_weights)])
                   ELSE model
    /\ history' = IF ev.call = "train_initial" THEN Some(ev.logs) ELSE history
    /\ outcome' = [Returned(ev.call, "Built") EXCEPT !.epochs = Len(ev.logs)]
    /\ ev' = [ev EXCEPT !.phase = "returned"]
    /\ UNCHANGED <<num_classes, input_shape, disk, seen, saved, calls>>

FitNext ==
    \/ \E e \in {2, MaxFitEpochs} : TrainInitialBegins(e)
    \/ \E e \in {2, MaxFitEpochs}, k \in UnfreezeChoices : FineTuneBegins(e, k)
    \/ \E a \in {1, 2}, l \in {1, 2, 3} : EpochEnds(a, l)
    \/ FitReturns

SpecFit == FitInit /\ [][FitNext]_vars

-----------------------------------------------------------------------------
(* Specification of the /api/predict endpoint (backend/app.py): requests are *)
(* handled one after the other; the temporary files are the files that       *)
(* tempfile.NamedTemporaryFile(delete=False) created and nothing unlinked.   *)
(* The upload's save and the detector are inputs: each returns or raises.    *)

AppInit ==
    /\ num_classes = 2
    /\ input_shape = 224
    /\ model = None
    /\ history = None
    /\ disk = [p \in Paths |-> None]
    /\ outcome = Returned("__init__", "Unbuilt")
    /\ seen = NoSeen
    /\ saved = [p \in CallerPaths |-> None]
    /\ calls = 0
    /\ ev = [op |-> "app", requests |-> 0, created |-> 0, temp_files |-> {},
             request |-> <<>>, status |-> 0]

\* the handler of POST /api/predict. has_image: 'image' in request.files;
\* filename: image_file.filename; save_ok: image_file.save returns;
\* predict_ok: disease_detector.predict returns
api_predict(has_image, filename, save_ok, predict_ok) ==
    /\ ev.requests < MaxRequests
    /\ LET temp_file == ev.created + 1
           request == <<has_image, filename, save_ok, predict_ok>>
           handled == [ev EXCEPT !.requests = @ + 1, !.request = request]
       IN IF ~has_image \/ filename = ""
          THEN ev' = [handled EXCEPT !.status = 400]
          ELSE IF ~save_ok \/ ~predict_ok
          THEN \* the exception leaves the with block and is caught at line 54
               ev' = [handled EXCEPT !.created = temp_file,
                                     !.temp_files = @ \cup {temp_file},
                                     !.status = 500]
          ELSE \* os.unlink(temp_file.name)
               ev' = [handled EXCEPT !.created = temp_file, !.status = 200]
    /\ UNCHANGED <<num_classes, input_shape, model, history, disk, outcome, seen, saved, calls>>

AppNext ==
    \E has_image \in BOOLEAN, filename \in {"", "leaf.jpg"}, save_ok \in BOOLEAN,
       predict_ok \in BOOLEAN : api_predict(has_image, filename, save_ok, predict_ok)

SpecApp == AppInit /\ [][AppNext]_vars

-----------------------------------------------------------------------------
(* VoiceAssistant.translate_text and process_text_query                      *)
(* (backend/voice_assistant.py). A text is a sequence of words; the          *)
(* translation service and the generative model are outside the program:     *)
(* what a call to them does is an input. The requests a call makes are kept  *)
(* in the order they are made.                                               *)

Languages == {"en", "hi", "kn"}

\* what requests.post to the translation service can do: answer 200 with a
\* translation, answer 200 with a body without 'translatedText', answer with
\* another status, or raise (time-out, no connection)
Replies == {"translated", "malformed", "status 500", "raises"}

Request(service, q, source, target) ==
    [service |-> service, q |-> q, source |-> source, target |-> target]

\* response.json()['translatedText'] of the service
Translated(text, target_lang) == text \o <<"in", target_lang>>

\* a translate_text without the try block: the failure of the request reaches
\* the caller
translate_text_uncaught(text, source_lang, target_lang, reply) ==
    IF source_lang = target_lang
    THEN [result |-> text, requests |-> <<>>, err |-> ""]
    ELSE [result |-> IF reply = "translated" THEN Translated(text, target_lang) ELSE text,
          requests |-> <<Request("translate", text, source_lang, target_lang)>>,
          err |-> IF reply \in {"malformed", "raises"} THEN "Exception" ELSE ""]

translate_text(text, source_lang, target_lang, reply) ==
    IF source_lang = target_lang
    THEN [result |-> text, requests |-> <<>>, err |-> ""]
    ELSE [result |-> IF reply = "translated" THEN Translated(text, target_lang) ELSE text,
          requests |-> <<Request("translate", text, source_lang, target_lang)>>,
          err |-> ""]

\* confidence is in tenths
get_agriculture_response(query, language, generated) ==
    [response |-> IF generated THEN <<"advice", "on">> \o query ELSE <<"sorry">>,
     confidence |-> IF generated THEN 9 ELSE 1,
     language |-> language,
     requests |-> <<Request("generate", query, "", "")>>]

\* replies: what the service does at the first and at the second translation
process_text_query(query, target_language, replies, generated) ==
    LET to_english == IF target_language # "en"
                      THEN translate_text(query, target_language, "en", replies[1])
                      ELSE [result |-> query, requests |-> <<>>, err |-> ""]
        ai_response == get_agriculture_response(to_english.result, target_language, generated)
        from_english == IF target_language # "en"
                        THEN translate_text(ai_response.response, "en", target_language, replies[2])
                        ELSE [result |-> ai_response.response, requests |-> <<>>, err |-> ""]
    IN IF to_english.err # "" \/ from_english.err # ""
       THEN [success |-> FALSE, user_query |-> query, language |-> target_language,
             ai_response |-> <<>>, confidence |-> 0,
             requests |-> IF to_english.err # "" THEN to_english.requests
                          ELSE to_english.requests \o ai_response.requests \o from_english.requests]
       ELSE [success |-> TRUE, user_query |-> query, language |-> target_language,
             ai_response |-> from_english.result, confidence |-> ai_response.confidence,
             requests |-> to_english.requests \o ai_response.requests \o from_english.requests]

-----------------------------------------------------------------------------
(* Specification of the voice assistant's text functions: Init draws the     *)
(* arguments of one call and what the services do, the action applies the    *)
(* function.                                                                 *)

Texts == {<<"rice", "pests">>, <<"advice">>}

TranslateCalls ==
    {[op |-> "translate_text", done |-> FALSE, text |-> t, source_lang |-> s,
      target_lang |-> g, reply |-> r, result |-> [result |-> <<>>, requests |-> <<>>, err |-> ""]] :
        t \in Texts, s \in Languages, g \in Languages, r \in Replies}

TextQueryCalls ==
    {[op |-> "process_text_query", done |-> FALSE, query |-> t, target_language |-> g,
      replies |-> rr, generated |-> a,
      result |-> [success |-> FALSE, user_query |-> <<>>, language |-> "", ai_response |-> <<>>,
                  confidence |-> 0, requests |-> <<>>]] :
        t \in Texts, g \in Languages, rr \in Replies \X Replies, a \in BOOLEAN}

VoiceInit ==
    /\ num_classes = 2
    /\ input_shape = 224
    /\ model = None
    /\ history = None
    /\ disk = [p \in Paths |-> None]
    /\ outcome = Returned("__init__", "Unbuilt")
    /\ seen = NoSeen
    /\ saved = [p \in CallerPaths |-> None]
    /\ calls = 0
    /\ \/ ev \in TranslateCalls
       \/ ev \in TextQueryCalls

TranslateTextCall ==
    /\ ev.op = "translate_text" /\ ~ev.done
    /\ ev' = [ev EXCEPT !.done = TRUE,
                        !.result = translate_text(ev.text, ev.source_lang, ev.target_lang, ev.reply)]
    /\ UNCHANGED <<num_classes, input_shape, model, history, disk, outcome, seen, saved, calls>>

ProcessTextQueryCall ==
    /\ ev.op = "process_text_query" /\ ~ev.done
    /\ ev' = [ev EXCEPT !.done = TRUE,
                        !.result = process_text_query(ev.query, ev.target_language, ev.replies,
                                                      ev.generated)]
    /\ UNCHANGED <<num_classes, input_shape, model, history, disk, outcome, seen, saved, calls>>

VoiceNext == TranslateTextCall \/ ProcessTextQueryCall

SpecVoice == VoiceInit /\ [][VoiceNext]_vars

-----------------------------------------------------------------------------
(* Claims about the classifier life cycle *)

\* a step that is a call of op on the instance
IsCall(op) == calls' = calls + 1 /\ outcome'.op = op

\* C1: fine_tune on a model on which train_initial has not completed (Unbuilt
\* or Built) is rejected: the call raises (the claim names the error
\* InvalidStateError), no layer is unfrozen, the model is not recompiled, no
\* epoch runs, and the model, its state and the files are unchanged.
C1_FineTuneBeforeTrainRejected ==
    [][(IsCall("fine_tune") /\ State(model) \in {"Unbuilt", "Built"})
        => /\ outcome'.err # ""
           /\ outcome'.epochs = 0
           /\ model' = model
           /\ history' = history
           /\ disk' = disk]_vars

\* C2: predict on an Unbuilt model fails with ModelNotReadyError and returns
\* no result; predict on a Built, Trained or FineTuned model returns a result.
C2_PredictNeedsBuiltModel ==
    outcome.op = "predict_disease" =>
        IF outcome.pre = "Unbuilt"
        THEN outcome.err = "ModelNotReadyError" /\ outcome.probabilities = <<>>
        ELSE outcome.err = "" /\ outcome.probabilities # <<>>

\* C3: train_initial runs only on a model that is present and compiled: called
\* on no model, or on a model that was never compiled, it raises, runs no
\* epoch, produces no history and changes nothing; a train_initial that
\* returns ran at least one epoch and moves a Built model to Trained.
C3_TrainOnlyWhenCompiled ==
    [][IsCall("train_initial") =>
        /\ (model = None \/ ~Get(model).compiled)
              => /\ outcome'.err # ""
                 /\ outcome'.epochs = 0
                 /\ history' = history
                 /\ model' = model
                 /\ disk' = disk
        /\ outcome'.err = ""
              => /\ model # None /\ Get(model).compiled
                 /\ outcome'.epochs >= 1
                 /\ history' # None /\ Len(Get(history')) = outcome'.epochs
                 /\ (State(model) = "Built" => State(model') = "Trained")]_vars

C3_Witness ==
    /\ outcome.op = "train_initial"
    /\ outcome.pre = "Built"
    /\ outcome.err = "RuntimeError"
    /\ history = None

\* C4: predict returns label = classNames[i] for the lowest index i at which
\* the probability vector of the forward pass attains its maximum, confidence
\* = that vector's entry i, and the vector itself.
C4_PredictIsStableArgmax ==
    (outcome.op = "predict_disease" /\ outcome.err = "") =>
        LET p == Forward(Get(model), outcome.tensor) IN
        /\ outcome.probabilities = p
        /\ Len(outcome.names) = Len(p)
        /\ \E i \in 1..Len(p) :
              /\ \A j \in 1..Len(p) : p[j] <= p[i]
              /\ \A j \in 1..(i - 1) : p[j] < p[i]
              /\ outcome.label = outcome.names[i]
              /\ outcome.confidence = p[i]

\* a prediction whose maximum is attained at two indices
C4_Witness ==
    /\ outcome.op = "predict_disease"
    /\ outcome.err = ""
    /\ \E i, j \in 1..Len(outcome.probabilities) :
          /\ i < j
          /\ outcome.probabilities[i] = outcome.confidence
          /\ outcome.probabilities[j] = outcome.confidence

C7_LoadReplacesInstanceState ==
    (outcome.op = "load_model" /\ outcome.err = "" /\ outcome.path \in CallerPaths) =>
        LET a == Get(disk[outcome.path]) IN
        /\ Get(model).numClasses = a.model_config.numClasses
        /\ Get(model).inputShape = a.model_config.inputShape
        /\ Get(model).trainable = a.model_config.trainable
        /\ Get(model).w = a.model_weights.w
        /\ num_classes = a.model_config.numClasses
        /\ input_shape = a.model_config.inputShape

\* C21: after a fine_tune(..., unfreeze_layers = k) that returned, exactly the
\* top min(k, L) of the L backbone layers are trainable and every layer below
\* them is frozen, for every k >= 0; with k = 0 no backbone layer is trainable.
C21_UnfreezeTopLayers ==
    [][\A e \in EpochChoices, k \in UnfreezeChoices :
          (fine_tune(e, k) /\ outcome'.err = "") =>
              \A l \in 1..BackboneLayers :
                  Get(model').trainable[l] <=> (l > BackboneLayers - Min(k, BackboneLayers))]_vars

-----------------------------------------------------------------------------
(* Claims about the evaluation functions *)

\* the confusion matrix indexed by position in class_names: M[i][j] counts the
\* samples whose true class is i - 1 and whose predicted class is j - 1
MatrixByClassIndex(n, y_true, y_pred) ==
    [i \in 1..n |-> [j \in 1..n |-> Count(y_true, y_pred, i - 1, j - 1)]]

PerClassDone == ev.op = "calculate_per_class_metrics" /\ ev.done

\* C8: calculate_per_class_metrics never raises and returns an entry for
\* every class of class_names, also for a class with no true instance, no
\* predicted instance, or neither; a metric whose denominator is 0 is 0.
C8_PerClassMetricsNeverRaises ==
    PerClassDone =>
        /\ ev.err = ""
        /\ Len(ev.result) = ev.n
        /\ LET M == MatrixByClassIndex(ev.n, ev.y_true, ev.y_pred) IN
           \A i \in 1..ev.n :
              /\ ColSum(M, i) = 0 => ev.result[i].precision = Zero
              /\ RowSum(M, i) = 0 => ev.result[i].recall = Zero
              /\ (ColSum(M, i) = 0 \/ RowSum(M, i) = 0) => ev.result[i].f1_score = Zero
              /\ Total(M) - RowSum(M, i) = 0 => ev.result[i].specificity = Zero

\* C9: for every batch and every class at position i of class_names the
\* entry is computed from the matrix M indexed by position in class_names:
\* precision = M[i,i] / column i, recall = M[i,i] / row i,
\* F1 = 2 * precision * recall / (precision + recall), specificity =
\* TN / (TN + FP), support = row i; M = [[8,2],[1,9]] gives the first class
\* precision 8/9 and recall 8/10.
C9_PerClassMetricsFromMatrix ==
    PerClassDone =>
        /\ ev.err = ""
        /\ Len(ev.result) = ev.n
        /\ LET M == MatrixByClassIndex(ev.n, ev.y_true, ev.y_pred) IN
           \A i \in 1..ev.n :
              LET tp == M[i][i]
                  col == ColSum(M, i)
                  row == RowSum(M, i)
                  tn == Total(M) - col - row + tp
                  negatives == Total(M) - row
                  e == ev.result[i]
              IN /\ col > 0 => e.precision = Ratio(tp, col)
                 /\ row > 0 => e.recall = Ratio(tp, row)
                 /\ tp > 0 => e.f1_score = Ratio(2 * tp, col + row)
                 /\ negatives > 0 => e.specificity = Ratio(tn, negatives)
                 /\ e.support = row
        /\ (ev.y_true = ScenarioTrue /\ ev.y_pred = ScenarioPred)
             => /\ ev.result[1].precision = <<8, 9>>
                /\ ev.result[1].recall = <<4, 5>>
                /\ ev.result[1].f1_score = <<16, 19>>

CalibrationDone == ev.op = "calculate_confidence_calibration" /\ ev.done

\* C10: every prediction (its top-class probability lies in (0,1]) falls in
\* exactly one of the n_bins equal-width intervals ((b-1)/n_bins, b/n_bins],
\* so the bin populations sum to the batch size; the accuracy and confidence
\* lists have n_bins entries each, and an empty bin has 0 in both.
C10_CalibrationBinsPartition ==
    CalibrationDone =>
        LET N == Len(ev.y_pred_proba)
            top(s) == SeqMax(ev.y_pred_proba[s])
            r == ev.result
        IN /\ Len(r.accuracies) = ev.n_bins
           /\ Len(r.confidences) = ev.n_bins
           /\ \A b \in 1..ev.n_bins :
                 /\ r.population[b] =
                       Cardinality({s \in 1..N : /\ (b - 1) * CalUnits < top(s) * ev.n_bins
                                                  /\ top(s) * ev.n_bins <= b * CalUnits})
                 /\ r.population[b] = 0 => r.accuracies[b] = Zero /\ r.confidences[b] = Zero
           /\ SumSeq(r.population) = N
           /\ \A s \in 1..N :
                 Cardinality({b \in 1..ev.n_bins : InBin(top(s), b, ev.n_bins)}) = 1

\* a batch with two predictions, one of them on the bound between two bins,
\* and an empty bin
C10_Witness ==
    /\ CalibrationDone
    /\ Len(ev.y_pred_proba) = 2
    /\ \E b \in 1..ev.n_bins : ev.result.population[b] = 0
    /\ \E s \in 1..2, b \in 1..(ev.n_bins - 1) :
          SeqMax(ev.y_pred_proba[s]) * ev.n_bins = b * CalUnits

\* |x - y| of two ratios, written out for the claims
Gap(x, y) ==
    IF x[1] * y[2] >= y[1] * x[2]
    THEN Ratio(x[1] * y[2] - y[1] * x[2], x[2] * y[2])
    ELSE Ratio(y[1] * x[2] - x[1] * y[2], x[2] * y[2])

\* C11: expected_calibration_error is the sum over the bins of
\* (population of the bin / batch size) * |accuracy of the bin - mean
\* confidence of the bin|; it is 0 exactly when every non-empty bin has its
\* accuracy equal to its mean confidence, and it lies in [0, 1].
C11_ExpectedCalibrationError ==
    CalibrationDone =>
        LET N == Len(ev.y_pred_proba)
            top(s) == SeqMax(ev.y_pred_proba[s])
            members(b) == {s \in 1..N : /\ (b - 1) * CalUnits < top(s) * ev.n_bins
                                        /\ top(s) * ev.n_bins <= b * CalUnits}
            hits(b) == {s \in members(b) :
                          \E i \in 1..Len(ev.y_pred_proba[s]) :
                             /\ ev.y_true[s] = i - 1
                             /\ ev.y_pred_proba[s][i] = top(s)
                             /\ \A j \in 1..(i - 1) : ev.y_pred_proba[s][j] < top(s)}
            acc(b) == Ratio(Cardinality(hits(b)), Cardinality(members(b)))
            conf(b) == Ratio(SumSeq([s \in 1..N |-> IF s \in members(b) THEN top(s) ELSE 0]),
                             Cardinality(members(b)) * CalUnits)
            term(b) == IF members(b) = {} THEN Zero
                       ELSE RatMul(Ratio(Cardinality(members(b)), N), Gap(acc(b), conf(b)))
            ece == ev.result.expected_calibration_error
        IN /\ ece = RatSumSeq([b \in 1..ev.n_bins |-> term(b)])
           /\ (ece = Zero) <=> (\A b \in 1..ev.n_bins : members(b) # {} => acc(b) = conf(b))
           /\ 0 <= ece[1] /\ ece[1] <= ece[2]

\* a calibrated batch: a bin of two predictions of confidence 1/2, one of
\* them right
C11_Witness ==
    /\ CalibrationDone
    /\ ev.result.expected_calibration_error = Zero
    /\ \E b \in 1..ev.n_bins :
          /\ ev.result.population[b] = 2
          /\ ev.result.accuracies[b] = <<1, 2>>
          /\ ev.result.confidences[b] = <<1, 2>>

AnalyzeDone == ev.op = "analyze_model_errors" /\ ev.done

\* the class index of sample s of a label array, whatever its encoding
LabelOf(y, s) ==
    IF y.ndim = 1 THEN y.rows[s][1]
    ELSE CHOOSE c \in 0..(Len(y.rows[s]) - 1) : y.rows[s][c + 1] = 1

\* the samples with true class a and predicted class b
Confused(a, b) ==
    {s \in 1..Len(ev.y_true.rows) : LabelOf(ev.y_true, s) = a /\ LabelOf(ev.y_pred, s) = b}

\* C12: for every pair of label arrays of equal length analyze_model_errors
\* returns total_errors = the number of samples whose predicted class is not
\* the true class, error_rate = total_errors / batch size and
\* misclassified_indices = those indices, ascending; without a misclassified
\* sample it returns 0, 0 and no common error, and does not raise; for
\* true = [0,0,1,1], pred = [0,1,1,0] it returns 2 and 1/2.
C12_ErrorAnalysisCounts ==
    AnalyzeDone =>
        LET N == Len(ev.y_true.rows)
            wrong == {s \in 1..N : LabelOf(ev.y_true, s) # LabelOf(ev.y_pred, s)}
            r == ev.result
        IN /\ ev.err = ""
           /\ r.total_errors = Cardinality(wrong)
           /\ r.error_rate = Ratio(Cardinality(wrong), N)
           /\ Len(r.misclassified_indices) = Cardinality(wrong)
           /\ \A k \in 1..Len(r.misclassified_indices) :
                 /\ r.misclassified_indices[k] + 1 \in wrong
                 /\ k > 1 => r.misclassified_indices[k - 1] < r.misclassified_indices[k]
           /\ wrong = {} => r.common_errors = <<>>
           /\ (ev.y_true = Array1(ErrorScenarioTrue) /\ ev.y_pred = Array1(ErrorScenarioPred))
                 => r.total_errors = 2 /\ r.error_rate = <<1, 2>>

\* C13: every entry of common_errors names class_names[a] and class_names[b]
\* with a # b and its count is the number of samples of true class a
\* predicted as b; there are at most 10 entries, in descending order of
\* count, and no confusion left out is more frequent than one listed; also
\* when the misclassified samples involve only some of the classes. Stated
\* for the batches with a misclassified sample.
C13_TopConfusions ==
    (AnalyzeDone /\ \E s \in 1..Len(ev.y_true.rows) : LabelOf(ev.y_true, s) # LabelOf(ev.y_pred, s)) =>
        LET names == SubSeq(ClassPool, 1, ev.n)
            q == ev.result.common_errors
            pos(name) == CHOOSE i \in 1..ev.n : names[i] = name
            listed == {<<pos(q[k].true_class) - 1, pos(q[k].predicted_class) - 1>> : k \in 1..Len(q)}
            confusions == {ab \in (0..(ev.n - 1)) \X (0..(ev.n - 1)) :
                              ab[1] # ab[2] /\ Confused(ab[1], ab[2]) # {}}
        IN /\ ev.err = ""
           /\ Len(q) <= max_common_errors
           /\ Cardinality(listed) = Len(q)
           /\ listed \subseteq confusions
           /\ \A k \in 1..Len(q) :
                 /\ q[k].count = Cardinality(Confused(pos(q[k].true_class) - 1,
                                                      pos(q[k].predicted_class) - 1))
                 /\ k > 1 => q[k - 1].count >= q[k].count
                 /\ \A ab \in confusions \ listed :
                       Cardinality(Confused(ab[1], ab[2])) <= q[k].count
           /\ Len(q) < max_common_errors => listed = confusions

EvaluateDone == ev.op = "evaluate_predictions" /\ ev.done

\* C14: evaluate_predictions takes the true and the predicted labels each
\* as one-hot rows or as class indices, and returns for each of the four
\* combinations the report it returns for the class indices; with
\* probabilities supplied the report has in addition the AUC of every class
\* and the micro-averaged AUC, whatever the encoding of the true labels.
C14_EncodingsEquivalent ==
    EvaluateDone =>
        LET names == SubSeq(ClassPool, 1, ev.n)
            N == Len(ev.y_true.rows)
            by_index(y) == Array1([s \in 1..N |-> LabelOf(y, s)])
            one_hot(y) == OneHotArray([s \in 1..N |-> LabelOf(y, s)], ev.n)
            plain == evaluate_predictions(names, by_index(ev.y_true), by_index(ev.y_pred), None)
            r == ev.result
        IN /\ r.err = plain.err
           /\ r.accuracy = plain.accuracy
           /\ r.precision = plain.precision
           /\ r.recall = plain.recall
           /\ r.f1_score = plain.f1_score
           /\ r.classification_report = plain.classification_report
           /\ r.confusion_matrix = plain.confusion_matrix
           /\ (ev.y_pred_proba # None /\ plain.err = "")
                 => /\ r.roc_curves # None
                    /\ Len(Get(r.roc_curves).auc) = ev.n
                    /\ r.roc_curves = evaluate_predictions(names, one_hot(ev.y_true), one_hot(ev.y_pred),
                                                           ev.y_pred_proba).roc_curves

-----------------------------------------------------------------------------
(* Claims about the image functions *)

PreprocessDone == ev.op = "preprocess_image" /\ ev.done

IsValidImage(image) ==
    /\ image.kind \in {"PIL", "ndarray"}
    /\ image.width >= 1
    /\ image.height >= 1

\* C15: for every valid image (PIL image or pixel array, width and height at
\* least 1, any mode) preprocess_image with normalize=True returns a tensor
\* of shape (1, 224, 224, 3) whose values lie in [0, 1], and the image passed
\* in is as it was.
C15_PreprocessShapeAndRange ==
    [][(PreprocessCall /\ IsValidImage(ev.image) /\ ev.normalize)
        => /\ ev'.err = ""
           /\ ev'.result.shape = <<1, 224, 224, 3>>
           /\ 0 <= ev'.result.lo[1]
           /\ ev'.result.lo[1] * ev'.result.hi[2] <= ev'.result.hi[1] * ev'.result.lo[2]
           /\ ev'.result.hi[1] <= ev'.result.hi[2]
           /\ ev'.image = ev.image]_vars

\* a one-band array that is not of the target size, with values up to 255
C15_Witness ==
    /\ PreprocessDone
    /\ ev.normalize
    /\ ev.image.kind = "ndarray"
    /\ ev.image.mode = "L"
    /\ ev.image.width # ev.image.height
    /\ ev.image.lo < ev.image.hi
    /\ ev.result.hi = <<1, 1>>

\* C16: preprocess_image on an object that is no RGB-convertible pixel grid
\* of non-zero width and height fails with InvalidImageError and returns no
\* tensor.
C16_InvalidImageError ==
    (PreprocessDone /\ ~IsValidImage(ev.image)) =>
        /\ ev.err = "InvalidImageError"
        /\ ev.result = NoTensor

RemoveBackgroundDone == ev.op = "remove_background" /\ ev.done

\* the pixel, given as (R, G, B), lies in the green band
IsGreen(rgb) == InRange(BGR2HSV(<<rgb[3], rgb[2], rgb[1]>>))

\* C18: remove_background does not fail on a valid image and, for a PIL
\* image as for a pixel array, returns an image of the same size in which
\* every pixel is black or is the pixel of the input at that place, channel
\* by channel in the same order; an input without a pixel in the green band
\* gives an image that is black throughout.
C18_BackgroundMasked ==
    RemoveBackgroundDone =>
        LET in == ev.image.pixels
            out == ev.result.pixels
        IN /\ ev.err = ""
           /\ Height(out) = Height(in)
           /\ Width(out) = Width(in)
           /\ \A r \in 1..Height(in), c \in 1..Width(in) :
                 out[r][c] = Black \/ out[r][c] = in[r][c]
           /\ (\A r \in 1..Height(in), c \in 1..Width(in) : ~IsGreen(in[r][c]))
                 => \A r \in 1..Height(in), c \in 1..Width(in) : out[r][c] = Black

CropDone == ev.op = "crop_leaf_region" /\ ev.done

\* C17: crop_leaf_region returns the image it was given (the same object,
\* hence the same size and pixels) whenever edge detection finds no contour,
\* in particular for every image of one solid colour; it returns a cropped
\* image only when a contour was found.
C17_NoContourReturnsInput ==
    CropDone =>
        /\ (ev.detected = <<>> \/ ev.image.lo = ev.image.hi)
              => ev.result.same_object /\ ev.result.image = ev.image
        /\ ~ev.result.same_object => (ev.detected # <<>> /\ ev.image.lo # ev.image.hi)

\* an array of one solid colour, larger than one pixel
C17_Witness ==
    /\ CropDone
    /\ ev.image.kind = "ndarray"
    /\ ev.image.lo = ev.image.hi
    /\ ev.image.width > 1
    /\ ev.detected = <<>>
    /\ ev.result.same_object

\* C20: with the bounding box (x, y, w, h) of the largest contour in an image
\* of width W and height H the crop has left edge max(0, x - mx), right edge
\* min(W, x + w + mx), top edge max(0, y - my) and bottom edge
\* min(H, y + h + my), mx = floor(w * margin), my = floor(h * margin): it
\* lies in the image, contains the box and passes it by at most the margin
\* on every side.
C20_CropBox ==
    (CropDone /\ ~ev.result.same_object) =>
        LET c == ev.detected[CHOOSE i \in 1..Len(ev.detected) :
                     /\ \A j \in 1..Len(ev.detected) : ev.detected[j].area <= ev.detected[i].area
                     /\ \A j \in 1..(i - 1) : ev.detected[j].area < ev.detected[i].area]
            mx == (c.w * ev.margin[1]) \div ev.margin[2]
            my == (c.h * ev.margin[1]) \div ev.margin[2]
            left == ev.result.box[1]
            top == ev.result.box[2]
            right == ev.result.box[3]
            bottom == ev.result.box[4]
        IN /\ left = Max(0, c.x - mx)
           /\ right = Min(ev.image.width, c.x + c.w + mx)
           /\ top = Max(0, c.y - my)
           /\ bottom = Min(ev.image.height, c.y + c.h + my)
           /\ 0 <= left /\ right <= ev.image.width /\ 0 <= top /\ bottom <= ev.image.height
           /\ left <= c.x /\ c.x + c.w <= right /\ top <= c.y /\ c.y + c.h <= bottom
           /\ c.x - left <= mx /\ right - (c.x + c.w) <= mx
           /\ c.y - top <= my /\ bottom - (c.y + c.h) <= my
           /\ ev.result.image.width = right - left
           /\ ev.result.image.height = bottom - top

-----------------------------------------------------------------------------
(* Claims about concurrent requests *)

\* C19: while a train_initial or fine_tune call on the shared instance is
\* between its start and its end no other call on it is running: no predict
\* or save executes during a training call, and two training calls never
\* overlap.
C19_TrainingExclusive ==
    ev.op = "serve" =>
        \A t, u \in Threads :
            (t # u /\ ev.active[t].op \in Training) => ev.active[u] = Idle

-----------------------------------------------------------------------------
(* Claims about a training call *)

\* C22: for every learning rate r passed to compile_model, fine_tune
\* recompiles the model with the rate r / 100: when the fit of fine_tune
\* starts, the rate of the optimizer is a hundredth of r.
C22_FineTuneRateIsHundredth ==
    (ev.op = "fit" /\ ev.call = "fine_tune" /\ ev.logs = <<>>) =>
        Get(model).lr * 100 = ev.rate

\* the validation loss that the last improvement up to epoch e reached; an
\* improvement is a loss lower than that by more than 1e-4
RECURSIVE BestLoss(_, _)
BestLoss(logs, e) ==
    IF e = 1 THEN logs[1].val_loss
    ELSE IF logs[e].val_loss < BestLoss(logs, e - 1) - 1 THEN logs[e].val_loss
    ELSE BestLoss(logs, e - 1)

\* epoch e brought no improvement of the validation loss
LossPlateau(logs, e) == e > 1 /\ logs[e].val_loss >= BestLoss(logs, e - 1) - 1

\* C23: during the fit of train_initial the learning rate changes only by
\* being divided by 5 (and held at the floor 1e-4) at the end of 2 consecutive
\* epochs without improvement of the validation loss, and during the fit of
\* fine_tune only so at the end of 3 such epochs with the floor 1e-5; the rate
\* never increases, a change never takes it below the floor, and a decay that
\* is due while the rate is above the floor lowers it.
C23_LearningRateSchedule ==
    [][(ev.op = "fit" /\ ev.phase = "fitting") =>
        LET floor == IF ev.call = "train_initial" THEN 100 ELSE 10
            patience == IF ev.call = "train_initial" THEN 2 ELSE 3
            lr == Get(model).lr
            new_lr == Get(model').lr
            n == Len(ev'.logs)
        IN /\ new_lr <= lr
           /\ new_lr # lr =>
                 /\ new_lr = Max(lr \div 5, floor)
                 /\ new_lr >= floor
                 /\ n > patience
                 /\ \A e \in (n - patience + 1)..n : LossPlateau(ev'.logs, e)
           /\ (/\ n = Len(ev.logs) + 1
               /\ ev.lr_wait + 1 >= patience
               /\ LossPlateau(ev'.logs, n)
               /\ lr > floor) => new_lr < lr]_vars

\* train_initial with the default rate 1e-3 returned with the rate at the
\* floor 1e-4: divided by 5 once, then cut to the floor
C23_Witness ==
    /\ ev.op = "fit" /\ ev.call = "train_initial" /\ ev.phase = "returned"
    /\ ev.rate = default_learning_rate
    /\ Get(model).lr = 100

\* epoch e brought no improvement of the validation accuracy on the best before it
AccuracyPlateau(logs, e) == \E j \in 1..(e - 1) : logs[j].val_accuracy >= logs[e].val_accuracy

\* the 3 epochs up to e brought no improvement of the validation accuracy
Plateaued(logs, e) == e > 3 /\ \A i \in (e - 2)..e : AccuracyPlateau(logs, i)

\* the epoch with the best validation accuracy: the first that reached it
BestEpoch(logs) ==
    CHOOSE e \in 1..Len(logs) :
        /\ \A j \in 1..Len(logs) : logs[j].val_accuracy <= logs[e].val_accuracy
        /\ \A j \in 1..(e - 1) : logs[j].val_accuracy < logs[e].val_accuracy

\* C24: train_initial runs at most `epochs` epochs and no epoch after 3
\* consecutive epochs without improvement of the validation accuracy; the
\* history has one record per completed epoch, in order; when it returns,
\* having stopped early or having run all epochs, the weights of the model
\* are those of an epoch with the best validation accuracy seen, and the
\* checkpoint file holds the weights last saved for that accuracy (those of
\* the first epoch that reached it).
C24_TrainInitialEarlyStopBestWeights ==
    (ev.op = "fit" /\ ev.call = "train_initial") =>
        /\ Len(ev.logs) <= ev.epochs
        /\ \A e \in 1..Len(ev.logs) : ev.logs[e].epoch = e
        /\ \A e \in 1..(Len(ev.logs) - 1) : ~Plateaued(ev.logs, e)
        /\ ev.phase = "returned" =>
              /\ Len(ev.logs) = ev.epochs \/ Plateaued(ev.logs, Len(ev.logs))
              /\ history = Some(ev.logs)
              /\ outcome.epochs = Len(ev.logs)
              /\ Get(model).w \in 1..Len(ev.logs)
              /\ ev.logs[Get(model).w].val_accuracy = ev.logs[BestEpoch(ev.logs)].val_accuracy
              /\ disk[initial_checkpoint_path] # None
              /\ Get(disk[initial_checkpoint_path]).model_weights.w = BestEpoch(ev.logs)

-----------------------------------------------------------------------------
(* Claims about the /api/predict endpoint *)

\* C25: the handler of /api/predict removes the temporary file it created on
\* every exit path, after a prediction and when the detector raises, so that
\* after any sequence of requests no temporary file remains; a request
\* without an image or with an empty filename is answered 400 and creates no
\* file.
C25_TempFileRemoved ==
    [][(ev.op = "app" /\ ev'.requests = ev.requests + 1) =>
          /\ ev'.temp_files = {}
          /\ (~ev'.request[1] \/ ev'.request[2] = "")
                => ev'.status = 400 /\ ev'.created = ev.created]_vars

-----------------------------------------------------------------------------
(* Claims about the voice assistant *)

\* C26: translate_text never raises; with equal source and target language it
\* returns the text unchanged without a request to the translation service;
\* when the service answers with a status other than 200 or the request
\* fails it returns the text unchanged. Hence process_text_query with the
\* target language 'en' makes no translation request, and with any other
\* language it translates the query, then calls the generative model on the
\* translation, then translates the answer.
C26_TranslateNeverRaises ==
    /\ (ev.op = "translate_text" /\ ev.done) =>
          /\ ev.result.err = ""
          /\ ev.source_lang = ev.target_lang
                => ev.result.result = ev.text /\ ev.result.requests = <<>>
          /\ ev.reply \in {"status 500", "raises"} => ev.result.result = ev.text
    /\ (ev.op = "process_text_query" /\ ev.done) =>
          LET requests == ev.result.requests IN
          /\ ev.result.success
          /\ ev.target_language = "en" =>
                /\ Len(requests) = 1
                /\ requests[1] = Request("generate", ev.query, "", "")
          /\ ev.target_language # "en" =>
                /\ Len(requests) = 3
                /\ requests[1] = Request("translate", ev.query, ev.target_language, "en")
                /\ requests[2].service = "generate"
                /\ requests[2].q \in {ev.query, Translated(ev.query, "en")}
                /\ requests[3] = Request("translate", requests[3].q, "en", ev.target_language)
                /\ requests[3].q \in {<<"sorry">>, <<"advice", "on">> \o requests[2].q}

\* a query in Hindi whose first translation request failed: the query went to
\* the generative model untranslated and the answer was translated
C26_Witness ==
    /\ ev.op = "process_text_query" /\ ev.done
    /\ ev.target_language = "hi"
    /\ ev.replies = <<"raises", "translated">>
    /\ ev.generated
    /\ ev.result.ai_response = Translated(<<"advice", "on">> \o ev.query, "hi")

====
